---- MODULE Spec2Model ----
(***************************************************************************)
(* Model of app/main.py: the Markdown blog's four in-memory caches         *)
(* (blog_content_cache, blog_list_cache, blog_page_cache,                  *)
(* about_page_cache), the file_mtimes table, and the coroutines that fill  *)
(* them (get_blog_content, get_all_blogs, startup_event, get_blog,         *)
(* about_page).                                                            *)
(*                                                                         *)
(* Granularity.  The handlers run on one asyncio event loop, so the code   *)
(* between two suspension points is one atomic action.  The suspension     *)
(* points are the aiofiles open/read (line 72-73, 238-239, 261-262), the   *)
(* run_in_executor parse (76-78, 241-243, 264-266) and asyncio.gather      *)
(* (139).  The content directory is written by processes outside the       *)
(* program; their writes are actions of their own and interleave with the  *)
(* handlers at the suspension points.                                      *)
(*                                                                         *)
(* Environment.  Every write to the directory stamps the file with an      *)
(* mtime no file carried before (mclock).  time.time() is the variable     *)
(* now; it starts far from the epoch, so a timestamp of 0 is expired.      *)
(* The initial state is the directory as startup_event finds it; the world *)
(* acts from then on; the directory was last changed long before.         *)
(*                                                                         *)
(* Python values.  None is the empty sequence and a value v that may be    *)
(* None is <<v>>.  A str is a sequence of one-character strings.           *)
(***************************************************************************)
EXTENDS Integers, Sequences, FiniteSets, TLC

VARIABLES
    fs,                 \* the content directory: file name -> [exists, mtime, content]
    mclock,             \* the last mtime the filesystem handed out
    changed,            \* time.time() of the last change to the directory
    now,                \* time.time()
    phase,              \* "init" | "starting" | "serving" | "crashed"
    blog_content_cache, \* line 32
    blog_list_cache,    \* line 33
    blog_page_cache,    \* line 34
    about_page_cache,   \* line 35
    file_mtimes,        \* line 38
    tasks,              \* the coroutines in flight, one per slot
    nev,                \* writes, clock steps and requests so far
    last,               \* the request the last step ended, as it ended (Idle: none)
    html,               \* input of the excerpt computation (SpecExcerpt)
    excerpt             \* its output (SpecExcerpt)

vars == <<fs, mclock, changed, now, phase, blog_content_cache, blog_list_cache,
          blog_page_cache, about_page_cache, file_mtimes, tasks, nev,
          last, html, excerpt>>

cachevars == <<blog_content_cache, blog_list_cache, blog_page_cache,
               about_page_cache, file_mtimes>>

-----------------------------------------------------------------------------
(* Bounds of the model *)

MaxEvents == 4      \* what the world does in a run: writes to the content
                    \* directory, steps of the clock, requests
MaxTasks == 2       \* coroutines in flight at once
MaxBlocks == 2      \* blocks of an HTML input of the excerpt computation

-----------------------------------------------------------------------------
(* Python idioms *)

None == <<>>
Some(v) == <<v>>

Max(S) == CHOOSE x \in S : \A y \in S : y <= x
Min(S) == CHOOSE x \in S : \A y \in S : x <= y

Rep(c, n) == [i \in 1..n |-> c]

\* s[:n]
Prefix(s, n) == SubSeq(s, 1, IF n < Len(s) THEN n ELSE Len(s))

\* s.rfind(c): the 0-based index of the last c in s, or -1
RFind(s, c) ==
    LET I == {i \in 1..Len(s) : s[i] = c}
    IN  IF I = {} THEN -1 ELSE Max(I) - 1

-----------------------------------------------------------------------------
(* Constants of main.py *)

IGNORED_FILES_Empty == {}

IGNORED_FILES == {"about.md"}
CACHE_DURATION == 60 * 60 * 5
ExcerptLen == 300

AboutFile == "about.md"
Files == {"a.md", "b.md", "about.md"}

\* listdir(BLOGS_DIR) returns the names in the directory's own order, the
\* same for the same set of files
DirOrder == <<"a.md", "about.md", "b.md">>

\* the slugs requests ask for
Slugs == {"a", "about"}

\* f"{filename}.md"
FileOf(slug) ==
    CASE slug = "a" -> "a.md"
      [] slug = "b" -> "b.md"
      [] slug = "about" -> "about.md"
      [] OTHER -> "zz.md"

\* file_name[:-3]
SlugOf(file_name) ==
    CASE file_name = "a.md" -> "a"
      [] file_name = "b.md" -> "b"
      [] file_name = "about.md" -> "about"
      [] OTHER -> "zz"

-----------------------------------------------------------------------------
(* The excerpt, lines 80-90 *)

HeadingDigits == {"1", "2", "3", "4", "5", "6"}

\* <h[1-6]> matches at position i of s
OpenAt(s, i) ==
    /\ i + 3 <= Len(s)
    /\ s[i] = "<" /\ s[i+1] = "h" /\ s[i+2] \in HeadingDigits /\ s[i+3] = ">"

\* </h[1-6]> matches at position j of s
CloseAt(s, j) ==
    /\ j + 4 <= Len(s)
    /\ s[j] = "<" /\ s[j+1] = "/" /\ s[j+2] = "h"
    /\ s[j+3] \in HeadingDigits /\ s[j+4] = ">"

\* the positions where <h[1-6]>.*?</h[1-6]> matches: an opening tag with a
\* closing tag somewhere after it (re.DOTALL: . matches the newline too)
MatchStarts(s) ==
    {i \in 1..Len(s) :
        OpenAt(s, i) /\ \E j \in (i+4)..Len(s) : CloseAt(s, j)}

\* re.sub(r"<h[1-6]>.*?</h[1-6]>", "", s, flags=re.DOTALL): the leftmost match
\* is removed up to the first closing tag after it (.*? is lazy), and the
\* search goes on behind the match
RECURSIVE StripHeadings(_)
StripHeadings(s) ==
    IF MatchStarts(s) = {} THEN s
    ELSE LET i == Min(MatchStarts(s))
             j == Min({k \in (i+4)..Len(s) : CloseAt(s, k)})
         IN  SubSeq(s, 1, i - 1) \o StripHeadings(SubSeq(s, j + 5, Len(s)))

Ellipsis == <<".", ".", ".">>

CutExcerpt_AlwaysEllipsis(html_content) ==
    Prefix(html_content, ExcerptLen) \o Ellipsis

\* lines 81-87
CutExcerpt(html_content) ==
    LET cut == Prefix(html_content, ExcerptLen)
        last_space == RFind(cut, " ")
    IN  IF Len(html_content) > ExcerptLen
        THEN IF last_space # -1
             THEN Prefix(cut, last_space) \o Ellipsis
             ELSE cut \o Ellipsis
        ELSE cut

\* lines 81-90
MakeExcerpt(html_content) == StripHeadings(CutExcerpt(html_content))

-----------------------------------------------------------------------------
(* parse_markdown, lines 46-53.  The markdown library is not part of the   *)
(* repository: a file's text is a version number (0: bytes that are not    *)
(* UTF-8, which f.read() refuses), and the HTML of version c is a          *)
(* paragraph that names c.                                                 *)

Contents == {0, 1, 2}
Readable(c) == c # 0

Digit(c) == CASE c = 1 -> "1" [] c = 2 -> "2"

parse_markdown(c) == <<"<", "p", ">", "v", Digit(c), "<", "/", "p", ">">>

\* lines 92-98 (metadata is not modelled)
MakeResult(file_name, c) ==
    [excerpt |-> MakeExcerpt(parse_markdown(c)),
     path |-> SlugOf(file_name),
     html_content |-> parse_markdown(c)]

-----------------------------------------------------------------------------
(* Coroutines in flight.  A call of get_blog_content is [pc, mt, src, res,   *)
(* hit, stale]: where it stands, its local mtime, the text it read, the     *)
(* value it returned, whether it returned at line 68, and whether line 67   *)
(* found an entry with another mtime.                                       *)

NoCall ==
    [pc |-> "none", mt |-> 0, src |-> 0, res |-> None, hit |-> FALSE, stale |-> FALSE]

Slots == 1..MaxTasks

ListNames == Files \ IGNORED_FILES

\* a coroutine: kind ("startup", "list", "blog", "about"), where it stands
\* (pc), the slug asked for, time.time() when it began (t0), whether it was
\* answered from blog_list_cache, blog_page_cache or about_page_cache
\* (cached), that cache's timestamp as is_cache_valid read it (ts),
\* blog_files (files), the gather's calls of get_blog_content (subs), the
\* handler's own call (call), the value returned by get_all_blogs (posts)
\* and the content and title given to the template (page)
Idle ==
    [kind |-> "idle", pc |-> "idle", slug |-> "", t0 |-> 0, cached |-> FALSE,
     ts |-> 0, files |-> <<>>, subs |-> [f \in ListNames |-> NoCall],
     call |-> NoCall, posts |-> None, page |-> None]

\* the lowest free slot takes the next coroutine
FreeSlot(t) == tasks[t].kind = "idle" /\ \A u \in Slots : u < t => tasks[u].kind # "idle"

Range(s) == {s[i] : i \in 1..Len(s)}

-----------------------------------------------------------------------------
(* The content directory *)

Absent == [exists |-> FALSE, mtime |-> 0, content |-> 0]

\* file_path.exists(), path.isfile(full_path): every entry is a regular file
Exists(file_name) == file_name \in Files /\ fs[file_name].exists

\* a process outside the program creates, rewrites or touches a file
WriteFile(f, c) ==
    /\ phase # "init"
    /\ nev < MaxEvents
    /\ nev' = nev + 1
    /\ mclock' = mclock + 1
    /\ fs' = [fs EXCEPT ![f] = [exists |-> TRUE, mtime |-> mclock + 1, content |-> c]]
    /\ changed' = now
    /\ UNCHANGED <<now, phase, cachevars, tasks, html, excerpt>>
    /\ last' = Idle

\* a process outside the program removes a file
DeleteFile(f) ==
    /\ phase # "init"
    /\ nev < MaxEvents
    /\ fs[f].exists
    /\ nev' = nev + 1
    /\ mclock' = mclock + 1
    /\ fs' = [fs EXCEPT ![f] = Absent]
    /\ changed' = now
    /\ UNCHANGED <<now, phase, cachevars, tasks, html, excerpt>>
    /\ last' = Idle

\* time passes; the clock is sampled every half CACHE_DURATION
StartTime == 2 * CACHE_DURATION
TickStep == CACHE_DURATION \div 2

Tick ==
    /\ phase # "init"
    /\ nev < MaxEvents
    /\ nev' = nev + 1
    /\ now' = now + TickStep
    /\ UNCHANGED <<fs, mclock, changed, phase, cachevars, tasks, html, excerpt>>
    /\ last' = Idle

-----------------------------------------------------------------------------
(* is_cache_valid, lines 41-43: every entry it is given is a non-empty dict *)

is_cache_valid(cache_entry) == now - cache_entry.timestamp < CACHE_DURATION

-----------------------------------------------------------------------------
(* get_blog_content, lines 56-110, as the three steps between its           *)
(* suspension points                                                        *)

ContentCacheHit_IgnoresMtime(file_name, force_refresh) ==
    /\ ~force_refresh
    /\ file_name \in DOMAIN blog_content_cache

\* lines 65-67
ContentCacheHit(file_name, force_refresh) ==
    /\ ~force_refresh
    /\ file_name \in DOMAIN blog_content_cache
    /\ blog_content_cache[file_name].mtime = fs[file_name].mtime

CallStart_CacheBeforeExists(file_name, force_refresh) ==
    IF file_name \in DOMAIN blog_content_cache
          /\ (~Exists(file_name) \/ ContentCacheHit(file_name, force_refresh))
    THEN [NoCall EXCEPT !.pc = "done",
                        !.res = Some(blog_content_cache[file_name].data),
                        !.hit = TRUE]
    ELSE IF ~Exists(file_name)
         THEN [NoCall EXCEPT !.pc = "done"]
         ELSE [NoCall EXCEPT !.pc = "read", !.mt = fs[file_name].mtime,
                             !.stale = file_name \in DOMAIN blog_content_cache]

\* lines 58-68, up to the suspension at line 72
CallStart(file_name, force_refresh) ==
    IF ~Exists(file_name)
    THEN [NoCall EXCEPT !.pc = "done"]
    ELSE IF ContentCacheHit(file_name, force_refresh)
         THEN [NoCall EXCEPT !.pc = "done", !.mt = fs[file_name].mtime,
                             !.res = Some(blog_content_cache[file_name].data),
                             !.hit = TRUE]
         ELSE [NoCall EXCEPT !.pc = "read", !.mt = fs[file_name].mtime,
                             !.stale = file_name \in DOMAIN blog_content_cache]

\* lines 72-73: the file is opened and read; a file that is gone or is not
\* UTF-8 raises, and lines 108-110 return None
CallRead(file_name, call) ==
    IF Exists(file_name) /\ Readable(fs[file_name].content)
    THEN [call EXCEPT !.pc = "store", !.src = fs[file_name].content]
    ELSE [call EXCEPT !.pc = "done"]

\* lines 80-107: the value returned
CallStore(file_name, call) ==
    [call EXCEPT !.pc = "done", !.res = Some(MakeResult(file_name, call.src))]

StoredMtime_ReadAtStore(file_name, call) == fs[file_name].mtime

\* lines 101-105: the entry written
StoredMtime(file_name, call) == call.mt

ContentEntry(file_name, call) ==
    [data |-> MakeResult(file_name, call.src),
     mtime |-> StoredMtime(file_name, call),
     timestamp |-> now]

-----------------------------------------------------------------------------
(* get_all_blogs, lines 113-150 *)

\* lines 122-128
AnyFileModified ==
    \E file_path \in Range(DirOrder) :
        /\ Exists(file_path) /\ file_path \notin IGNORED_FILES
        /\ \/ file_path \notin DOMAIN file_mtimes
           \/ file_mtimes[file_path] # fs[file_path].mtime

RefreshNeeded_Always(force_refresh) == TRUE

\* lines 118-128
RefreshNeeded(force_refresh) ==
    force_refresh \/ ~is_cache_valid(blog_list_cache) \/ AnyFileModified

\* lines 132-135
BlogFiles ==
    SelectSeq(DirOrder, LAMBDA file_path : Exists(file_path) /\ file_path \notin IGNORED_FILES)

\* lines 115-139: the task after the first step of get_all_blogs
AllBlogsStart(kind, force_refresh) ==
    IF RefreshNeeded(force_refresh)
    THEN [Idle EXCEPT !.kind = kind, !.pc = "gather", !.t0 = now,
                      !.ts = blog_list_cache.timestamp,
                      !.files = BlogFiles,
                      !.subs = [f \in ListNames |->
                                   IF f \in Range(BlogFiles)
                                   THEN [NoCall EXCEPT !.pc = "start"]
                                   ELSE NoCall]]
    ELSE [Idle EXCEPT !.kind = kind, !.pc = "done", !.t0 = now, !.cached = TRUE,
                      !.ts = blog_list_cache.timestamp,
                      !.posts = blog_list_cache.content]

\* line 142: the results that are not None, in the order of blog_files
RECURSIVE Gathered(_, _)
Gathered(files, subs) ==
    IF files = <<>> THEN <<>>
    ELSE subs[Head(files)].res \o Gathered(Tail(files), subs)

\* lines 147-148: path.getmtime raises at the first file that is gone and
\* the files before it are recorded
Missing(files) == {i \in 1..Len(files) : ~Exists(files[i])}

Recorded(files) ==
    IF Missing(files) = {} THEN Range(files)
    ELSE {files[i] : i \in 1..(Min(Missing(files)) - 1)}

MtimesAfter(files) ==
    [f \in DOMAIN file_mtimes \cup Recorded(files) |->
        IF f \in Recorded(files) THEN fs[f].mtime ELSE file_mtimes[f]]

\* one call of the gather runs lines 58-68
SubStart(t, f) ==
    /\ tasks[t].pc = "gather"
    /\ tasks[t].subs[f].pc = "start"
    /\ tasks' = [tasks EXCEPT ![t].subs[f] = CallStart(f, FALSE)]
    /\ UNCHANGED <<fs, mclock, changed, now, phase, cachevars, nev, html, excerpt>>
    /\ last' = Idle

\* its read completes or raises
SubRead(t, f) ==
    /\ tasks[t].pc = "gather"
    /\ tasks[t].subs[f].pc = "read"
    /\ tasks' = [tasks EXCEPT ![t].subs[f] = CallRead(f, @)]
    /\ UNCHANGED <<fs, mclock, changed, now, phase, cachevars, nev, html, excerpt>>
    /\ last' = Idle

\* its parse completes and lines 80-107 run
SubStore(t, f) ==
    /\ tasks[t].pc = "gather"
    /\ tasks[t].subs[f].pc = "store"
    /\ blog_content_cache' =
           (f :> ContentEntry(f, tasks[t].subs[f])) @@ blog_content_cache
    /\ tasks' = [tasks EXCEPT ![t].subs[f] = CallStore(f, @)]
    /\ UNCHANGED <<fs, mclock, changed, now, phase, blog_list_cache, blog_page_cache,
                   about_page_cache, file_mtimes, nev, html, excerpt>>
    /\ last' = Idle

GatherComplete(t) ==
    /\ tasks[t].pc = "gather"
    /\ \A f \in ListNames : tasks[t].subs[f].pc \in {"none", "done"}

ListCacheAfter_StampAtEnd(t) ==
    [content |-> Some(Gathered(tasks[t].files, tasks[t].subs)),
     timestamp |-> now]

\* lines 142-148
ListCacheAfter(t) ==
    [content |-> Some(Gathered(tasks[t].files, tasks[t].subs)),
     timestamp |-> tasks[t].t0]

\* a coroutine goes on as the record nt, or ends: the framework sends the
\* response (the 500 for an exception nothing caught) and last shows nt
Step(t, nt) ==
    IF nt.pc \in {"done", "error"}
    THEN tasks' = [tasks EXCEPT ![t] = Idle] /\ last' = nt
    ELSE tasks' = [tasks EXCEPT ![t] = nt] /\ last' = Idle

\* a list request's rebuild ends: lines 142-150
ListFinish(t) ==
    /\ tasks[t].kind = "list"
    /\ GatherComplete(t)
    /\ blog_list_cache' = ListCacheAfter(t)
    /\ file_mtimes' = MtimesAfter(tasks[t].files)
    /\ Step(t, IF Missing(tasks[t].files) = {}
               THEN [tasks[t] EXCEPT !.pc = "done", !.posts = ListCacheAfter(t).content]
               ELSE [tasks[t] EXCEPT !.pc = "error"])
    /\ UNCHANGED <<fs, mclock, changed, now, phase, blog_content_cache, blog_page_cache,
                   about_page_cache, nev, html, excerpt>>

\* blog_list, lines 160-177: the request calls get_all_blogs()
ListRequest(t) ==
    /\ phase = "serving"
    /\ nev < MaxEvents
    /\ FreeSlot(t)
    /\ nev' = nev + 1
    /\ Step(t, AllBlogsStart("list", FALSE))
    /\ UNCHANGED <<fs, mclock, changed, now, phase, cachevars, html, excerpt>>

-----------------------------------------------------------------------------
(* startup_event, lines 153-157, and the preload branch of about_page,      *)
(* lines 234-248.  The server accepts requests once startup_event returned; *)
(* an exception in it ends the process.                                     *)

StartupBegin ==
    /\ phase = "init"
    /\ phase' = "starting"
    /\ tasks' = [tasks EXCEPT ![1] = AllBlogsStart("startup", TRUE)]
    /\ UNCHANGED <<fs, mclock, changed, now, cachevars, nev, html, excerpt>>
    /\ last' = Idle

\* lines 142-150 of the startup rebuild, then lines 234-238
StartupListFinish(t) ==
    /\ tasks[t].kind = "startup"
    /\ GatherComplete(t)
    /\ blog_list_cache' = ListCacheAfter(t)
    /\ file_mtimes' = MtimesAfter(tasks[t].files)
    /\ IF Missing(tasks[t].files) # {}
       THEN /\ phase' = "crashed"
            /\ tasks' = [tasks EXCEPT ![t] = Idle]
       ELSE IF Exists(AboutFile)
            THEN /\ phase' = phase
                 /\ tasks' = [tasks EXCEPT ![t].pc = "preload_read",
                                           ![t].call = [NoCall EXCEPT !.pc = "read",
                                                            !.mt = fs[AboutFile].mtime]]
            ELSE /\ phase' = "serving"
                 /\ tasks' = [tasks EXCEPT ![t] = Idle]
    /\ UNCHANGED <<fs, mclock, changed, now, blog_content_cache, blog_page_cache,
                   about_page_cache, nev, html, excerpt>>
    /\ last' = Idle

\* lines 238-239: nothing catches a failed read
PreloadRead(t) ==
    /\ tasks[t].pc = "preload_read"
    /\ IF Exists(AboutFile) /\ Readable(fs[AboutFile].content)
       THEN /\ phase' = phase
            /\ tasks' = [tasks EXCEPT ![t].pc = "preload_store",
                                      ![t].call.src = fs[AboutFile].content]
       ELSE /\ phase' = "crashed"
            /\ tasks' = [tasks EXCEPT ![t] = Idle]
    /\ UNCHANGED <<fs, mclock, changed, now, cachevars, nev, html, excerpt>>
    /\ last' = Idle

AboutEntry_NoMtime(call) ==
    [content |-> Some(parse_markdown(call.src)), timestamp |-> now, mtime |-> 0]

\* lines 245-247 and 268-270
AboutEntry(call) ==
    [content |-> Some(parse_markdown(call.src)), timestamp |-> now, mtime |-> call.mt]

\* lines 241-248
PreloadStore(t) ==
    /\ tasks[t].pc = "preload_store"
    /\ about_page_cache' = AboutEntry(tasks[t].call)
    /\ phase' = "serving"
    /\ tasks' = [tasks EXCEPT ![t] = Idle]
    /\ UNCHANGED <<fs, mclock, changed, now, blog_content_cache, blog_list_cache,
                   blog_page_cache, file_mtimes, nev, html, excerpt>>
    /\ last' = Idle

-----------------------------------------------------------------------------
(* get_blog, lines 180-227.  blog_page_cache is keyed by the slug (the key  *)
(* is f"blog_{filename}").  Nothing between lines 192 and 221 raises at     *)
(* this granularity, so the handler of line 222 has no action.              *)

NoBlogContentFound == <<"<p>No blog content found</p>">>

\* lines 196-212: the response, as the content and the title given to the template
PageOf(blog_data) ==
    IF blog_data # None
    THEN [content |-> Some(blog_data[1].html_content), title |-> "TITLE"]
    ELSE [content |-> Some(NoBlogContentFound), title |-> "No blog found"]

PageCacheHit_NoTTL(slug) == slug \in DOMAIN blog_page_cache

\* line 186
PageCacheHit(slug) ==
    slug \in DOMAIN blog_page_cache /\ is_cache_valid(blog_page_cache[slug])

\* lines 216-219
PageEntry(blog_data) == [data |-> PageOf(blog_data), timestamp |-> now]

\* lines 196-221 for the call of get_blog_content that returned
BlogFinish(t, nt) ==
    /\ Step(t, [nt EXCEPT !.pc = "done", !.page = Some(PageOf(nt.call.res))])
    /\ blog_page_cache' = (nt.slug :> PageEntry(nt.call.res)) @@ blog_page_cache

\* lines 183-194 and, when get_blog_content returns at once, 196-221
BlogRequest(t, slug) ==
    /\ phase = "serving"
    /\ nev < MaxEvents
    /\ FreeSlot(t)
    /\ nev' = nev + 1
    /\ LET nt == [Idle EXCEPT !.kind = "blog", !.slug = slug, !.t0 = now]
           call == CallStart(FileOf(slug), FALSE)
       IN  IF PageCacheHit(slug)
           THEN /\ Step(t, [nt EXCEPT !.pc = "done", !.cached = TRUE,
                                      !.ts = blog_page_cache[slug].timestamp,
                                      !.page = Some(blog_page_cache[slug].data)])
                /\ UNCHANGED blog_page_cache
           ELSE IF call.pc = "done"
                THEN BlogFinish(t, [nt EXCEPT !.call = call])
                ELSE /\ Step(t, [nt EXCEPT !.pc = "read", !.call = call])
                     /\ UNCHANGED blog_page_cache
    /\ UNCHANGED <<fs, mclock, changed, now, phase, blog_content_cache, blog_list_cache,
                   about_page_cache, file_mtimes, html, excerpt>>

\* lines 72-73; a failed read returns None and lines 196-221 follow
BlogRead(t) ==
    /\ tasks[t].kind = "blog"
    /\ tasks[t].pc = "read"
    /\ LET call == CallRead(FileOf(tasks[t].slug), tasks[t].call)
       IN  IF call.pc = "done"
           THEN BlogFinish(t, [tasks[t] EXCEPT !.call = call])
           ELSE /\ Step(t, [tasks[t] EXCEPT !.pc = "store", !.call = call])
                /\ UNCHANGED blog_page_cache
    /\ UNCHANGED <<fs, mclock, changed, now, phase, blog_content_cache, blog_list_cache,
                   about_page_cache, file_mtimes, nev, html, excerpt>>

\* lines 80-107, then lines 196-221
BlogStore(t) ==
    /\ tasks[t].kind = "blog"
    /\ tasks[t].pc = "store"
    /\ LET f == FileOf(tasks[t].slug)
       IN  /\ blog_content_cache' =
                  (f :> ContentEntry(f, tasks[t].call)) @@ blog_content_cache
           /\ BlogFinish(t, [tasks[t] EXCEPT !.call = CallStore(f, tasks[t].call)])
    /\ UNCHANGED <<fs, mclock, changed, now, phase, blog_list_cache, about_page_cache,
                   file_mtimes, nev, html, excerpt>>

-----------------------------------------------------------------------------
(* about_page as a route, lines 250-281 *)

NoContentFound == <<"<p>No content found.</p>">>

AboutRefreshNeeded_TTLOnly == ~is_cache_valid(about_page_cache)

\* lines 251-257
AboutRefreshNeeded ==
    ~ /\ is_cache_valid(about_page_cache)
      /\ Exists(AboutFile)
      /\ fs[AboutFile].mtime = about_page_cache.mtime

\* line 272: the key "content" is in the dict from line 35 on, so get()
\* never returns its default
AboutContent(cache) == cache.content

\* lines 272-276
AboutPage(cache) == [content |-> AboutContent(cache), title |-> ""]

\* lines 250-260 and, when nothing is read, 272-281
AboutRequest(t) ==
    /\ phase = "serving"
    /\ nev < MaxEvents
    /\ FreeSlot(t)
    /\ nev' = nev + 1
    /\ LET nt == [Idle EXCEPT !.kind = "about", !.t0 = now,
                             !.ts = about_page_cache.timestamp]
       IN  Step(t, IF AboutRefreshNeeded /\ Exists(AboutFile)
                   THEN [nt EXCEPT !.pc = "read",
                                   !.call = [NoCall EXCEPT !.pc = "read",
                                                 !.mt = fs[AboutFile].mtime]]
                   ELSE [nt EXCEPT !.pc = "done",
                                   !.cached = ~AboutRefreshNeeded,
                                   !.page = Some(AboutPage(about_page_cache))])
    /\ UNCHANGED <<fs, mclock, changed, now, phase, cachevars, html, excerpt>>

\* lines 261-262: nothing catches a failed read, the request fails
AboutRead(t) ==
    /\ tasks[t].kind = "about"
    /\ tasks[t].pc = "read"
    /\ Step(t, IF Exists(AboutFile) /\ Readable(fs[AboutFile].content)
               THEN [tasks[t] EXCEPT !.pc = "store", !.call.pc = "store",
                                     !.call.src = fs[AboutFile].content]
               ELSE [tasks[t] EXCEPT !.pc = "error", !.call.pc = "done"])
    /\ UNCHANGED <<fs, mclock, changed, now, phase, cachevars, nev, html, excerpt>>

\* lines 264-281
AboutStore(t) ==
    /\ tasks[t].kind = "about"
    /\ tasks[t].pc = "store"
    /\ about_page_cache' = AboutEntry(tasks[t].call)
    /\ Step(t, [tasks[t] EXCEPT !.pc = "done", !.call.pc = "done",
                                !.page = Some(AboutPage(AboutEntry(tasks[t].call)))])
    /\ UNCHANGED <<fs, mclock, changed, now, phase, blog_content_cache, blog_list_cache,
                   blog_page_cache, file_mtimes, nev, html, excerpt>>

-----------------------------------------------------------------------------
(* The server *)

InitialFiles ==
    [Files -> {Absent, [exists |-> TRUE, mtime |-> 1, content |-> 1]}]

\* the state after the module is loaded, lines 16-38; about_page_cache has
\* no key "mtime" yet and line 256 reads it with the default 0
Loaded ==
    /\ mclock = 1
    /\ changed = 0
    /\ now = StartTime
    /\ phase = "init"
    /\ blog_content_cache = <<>>
    /\ blog_list_cache = [content |-> None, timestamp |-> 0]
    /\ blog_page_cache = <<>>
    /\ about_page_cache = [content |-> None, timestamp |-> 0, mtime |-> 0]
    /\ file_mtimes = <<>>
    /\ tasks = [t \in Slots |-> Idle]
    /\ nev = 0
    /\ last = Idle
    /\ excerpt = None

\* the coroutines of a list rebuild, whoever started it
Rebuild ==
    \/ \E t \in Slots, f \in ListNames : SubStart(t, f)
    \/ \E t \in Slots, f \in ListNames : SubRead(t, f)
    \/ \E t \in Slots, f \in ListNames : SubStore(t, f)

(* The posts: a directory without about.md, whose posts are written and    *)
(* removed while the list route and the post route are requested.          *)

Init ==
    /\ fs \in {d \in InitialFiles : ~d[AboutFile].exists}
    /\ html = <<>>
    /\ Loaded

Next ==
    \/ \E f \in ListNames, c \in Contents : WriteFile(f, c)
    \/ \E f \in ListNames : DeleteFile(f)
    \/ Tick
    \/ StartupBegin
    \/ Rebuild
    \/ \E t \in Slots : StartupListFinish(t)
    \/ \E t \in Slots : ListRequest(t)
    \/ \E t \in Slots : ListFinish(t)
    \/ \E t \in Slots, slug \in Slugs : BlogRequest(t, slug)
    \/ \E t \in Slots : BlogRead(t)
    \/ \E t \in Slots : BlogStore(t)

Spec == Init /\ [][Next]_vars

(* The about page: a directory with or without about.md and with the one   *)
(* post a.md, both written and removed while the list route and the about  *)
(* route are requested.                                                    *)

AboutFiles == {"a.md", "about.md"}

InitAbout ==
    /\ fs \in {d \in InitialFiles : d["a.md"].exists /\ ~d["b.md"].exists}
    /\ html = <<>>
    /\ Loaded

NextAbout ==
    \/ \E f \in AboutFiles, c \in Contents : WriteFile(f, c)
    \/ \E f \in AboutFiles : DeleteFile(f)
    \/ Tick
    \/ StartupBegin
    \/ Rebuild
    \/ \E t \in Slots : StartupListFinish(t)
    \/ \E t \in Slots : PreloadRead(t)
    \/ \E t \in Slots : PreloadStore(t)
    \/ \E t \in Slots : ListRequest(t)
    \/ \E t \in Slots : ListFinish(t)
    \/ \E t \in Slots : AboutRequest(t)
    \/ \E t \in Slots : AboutRead(t)
    \/ \E t \in Slots : AboutStore(t)

SpecAbout == InitAbout /\ [][NextAbout]_vars

(* The ignored file: a directory with about.md and the one post a.md, both  *)
(* written and removed while the list route is requested and the post      *)
(* route is requested for the slugs "a" and "about".                       *)

NextIgnored ==
    \/ \E f \in AboutFiles, c \in Contents : WriteFile(f, c)
    \/ \E f \in AboutFiles : DeleteFile(f)
    \/ Tick
    \/ StartupBegin
    \/ Rebuild
    \/ \E t \in Slots : StartupListFinish(t)
    \/ \E t \in Slots : PreloadRead(t)
    \/ \E t \in Slots : PreloadStore(t)
    \/ \E t \in Slots : ListRequest(t)
    \/ \E t \in Slots : ListFinish(t)
    \/ \E t \in Slots, slug \in Slugs : BlogRequest(t, slug)
    \/ \E t \in Slots : BlogRead(t)
    \/ \E t \in Slots : BlogStore(t)

SpecIgnored == InitAbout /\ [][NextIgnored]_vars

-----------------------------------------------------------------------------
(* The excerpt computation on its own.  The inputs are what parse_markdown *)
(* returns for headings and paragraphs: blocks <tag>words</tag> joined by  *)
(* newlines, the words joined by single spaces.                            *)

Tags == {<<"h", "1">>, <<"h", "2">>, <<"p">>}

\* the lengths of a block's words
TextShapes == {<<1>>, <<2, 2>>, <<150, 150>>, <<293>>, <<294>>, <<310>>}

RECURSIVE Words(_)
Words(shape) ==
    IF Len(shape) = 1 THEN Rep("a", shape[1])
    ELSE Rep("a", shape[1]) \o <<" ">> \o Words(Tail(shape))

Block(tag, shape) ==
    <<"<">> \o tag \o <<">">> \o Words(shape) \o <<"<", "/">> \o tag \o <<">">>

Blocks == {Block(tag, shape) : tag \in Tags, shape \in TextShapes}

RECURSIVE JoinLines(_)
JoinLines(blocks) ==
    IF Len(blocks) = 1 THEN blocks[1]
    ELSE blocks[1] \o <<"\n">> \o JoinLines(Tail(blocks))

HtmlInputs ==
    UNION {{JoinLines(d) : d \in [1..n -> Blocks]} : n \in 1..MaxBlocks}

InitExcerpt ==
    /\ fs = [f \in Files |-> Absent]
    /\ html \in HtmlInputs
    /\ Loaded

\* lines 80-90 on html_content = html
ApplyExcerpt ==
    /\ excerpt = None
    /\ excerpt' = Some(MakeExcerpt(html))
    /\ UNCHANGED <<fs, mclock, changed, now, phase, cachevars, tasks, nev, last, html>>

NextExcerpt == ApplyExcerpt

SpecExcerpt == InitExcerpt /\ [][NextExcerpt]_vars

-----------------------------------------------------------------------------
(* Properties.  A call of get_blog_content is watched where it runs: as a  *)
(* call of a rebuild's gather (tasks[t].subs[f]) or as the call of a post  *)
(* request (tasks[t].call, and last.call in the step that ends the         *)
(* request).                                                               *)

\* the heading tags of a string
HasHeadingTag(s) == \E i \in 1..Len(s) : OpenAt(s, i) \/ CloseAt(s, i)

\* C10: the excerpt computed from rendered HTML never contains heading tag
\* markup, no opening and no closing tag <h1>..<h6>, also when a heading
\* opens inside the first 300 characters and closes beyond the cut
C10_ExcerptHasNoHeadingTag ==
    excerpt # None => ~HasHeadingTag(excerpt[1])

-----------------------------------------------------------------------------
(* What a step does to the calls of get_blog_content.  A call is given as  *)
(* [f, c]: the file and the call's record.                                 *)

\* the calls that run lines 58-68 in this step, as they stand after it
CallsBegun ==
    {[f |-> f, c |-> tasks'[t].subs[f]] :
        <<t, f>> \in {x \in Slots \X ListNames :
                        /\ tasks[x[1]].subs[x[2]].pc = "start"
                        /\ tasks'[x[1]].subs[x[2]].pc # "start"}}
    \cup {[f |-> FileOf(tasks'[t].slug), c |-> tasks'[t].call] :
            t \in {u \in Slots : tasks[u].kind = "idle" /\ tasks'[u].kind = "blog"}}
    \cup (IF nev' # nev /\ last'.kind = "blog" /\ ~last'.cached
          THEN {[f |-> FileOf(last'.slug), c |-> last'.call]}
          ELSE {})

\* the calls that run lines 80-107 in this step, as they stood before it
CallsStoring ==
    {[f |-> f, c |-> tasks[t].subs[f]] :
        <<t, f>> \in {x \in Slots \X ListNames :
                        /\ tasks[x[1]].subs[x[2]].pc = "store"
                        /\ tasks'[x[1]].subs[x[2]].pc = "done"}}
    \cup {[f |-> FileOf(tasks[t].slug), c |-> tasks[t].call] :
            t \in {u \in Slots : /\ tasks[u].kind = "blog" /\ tasks[u].pc = "store"
                                 /\ tasks'[u].kind = "idle"}}

\* the entry of file f carries the file's mtime
EntryCurrent(f) ==
    /\ Exists(f)
    /\ f \in DOMAIN blog_content_cache
    /\ blog_content_cache[f].mtime = fs[f].mtime

\* the entry of file f was filled less than CACHE_DURATION ago
EntryWithinTTL(f) ==
    /\ f \in DOMAIN blog_content_cache
    /\ now - blog_content_cache[f].timestamp < CACHE_DURATION

\* the entry of file f carries another mtime than the file
EntryStale(f) ==
    /\ Exists(f)
    /\ f \in DOMAIN blog_content_cache
    /\ blog_content_cache[f].mtime # fs[f].mtime

\* C1 as amended: a call of get_blog_content made after the file's mtime
\* changed goes on to read the file again and, when the read and the parse
\* succeed, stores a new entry that carries the mtime the call saw, rendered
\* from the text the call read, and returns that; a call made while the
\* mtime is unchanged and the entry is within the TTL returns the cached
\* result and leaves blog_content_cache as it is
C1_RefreshOnMtimeChange ==
    [][/\ \A b \in CallsBegun :
            /\ EntryStale(b.f) =>
                  b.c.pc = "read" /\ b.c.mt = fs[b.f].mtime /\ b.c.stale
            /\ EntryCurrent(b.f) /\ EntryWithinTTL(b.f) =>
                  /\ b.c.pc = "done" /\ b.c.hit
                  /\ b.c.res = Some(blog_content_cache[b.f].data)
                  /\ blog_content_cache' = blog_content_cache
       /\ \A e \in CallsStoring :
            /\ e.f \in DOMAIN blog_content_cache'
            /\ blog_content_cache'[e.f].mtime = e.c.mt
            /\ blog_content_cache'[e.f].timestamp = now
            /\ blog_content_cache'[e.f].data.html_content = parse_markdown(e.c.src)
      ]_vars

\* C1, witness: a post request found an entry with an older mtime, read the
\* file again and stored an entry with the file's mtime
C1_Witness ==
    /\ last.kind = "blog"
    /\ last.call.stale
    /\ last.call.res # None
    /\ EntryCurrent(FileOf(last.slug))
    /\ blog_content_cache[FileOf(last.slug)].data = last.call.res[1]

\* C1 as stated: every call made after the file's mtime changed stores a new
\* entry that carries the new mtime (here: the calls of post requests, seen
\* in the step that ends them)
C1_StaleCallStoresEntry ==
    (last.kind = "blog" /\ last.call.stale) =>
        /\ last.call.res # None
        /\ blog_content_cache[FileOf(last.slug)].mtime = last.call.mt

-----------------------------------------------------------------------------
(* What the request ended by the last step returned *)

\* the paths of a sequence of posts
RECURSIVE Paths(_)
Paths(posts) ==
    IF posts = <<>> THEN <<>> ELSE <<Head(posts).path>> \o Paths(Tail(posts))

RECURSIVE SlugsOf(_)
SlugsOf(files) ==
    IF files = <<>> THEN <<>> ELSE <<SlugOf(Head(files))>> \o SlugsOf(Tail(files))

FallbackPage == [content |-> Some(NoBlogContentFound), title |-> "No blog found"]

\* the request ended by the last step read no Markdown file: it made no
\* call that went past line 68, 238 or 261
ReadNothing ==
    /\ last.call.pc = "none"
    /\ \A f \in ListNames : last.subs[f].pc = "none" \/ last.subs[f].hit

\* C2: an entry of blog_content_cache is valid only while less than
\* CACHE_DURATION has passed since its fill; a call that finds the mtime
\* unchanged after that reads and renders the file again (here: the calls
\* of post requests; a call that returns at line 68 ends its request in the
\* same step)
C2_HitOnlyWithinTTL ==
    (last.kind = "blog" /\ last.call.hit) => EntryWithinTTL(FileOf(last.slug))

\* the files of a rebuild whose call of get_blog_content returned a post
Rendered(files, subs) == SelectSeq(files, LAMBDA f : subs[f].res # None)

\* C3: the sequence get_all_blogs returns holds exactly one post per file
\* that is in the directory (and not ignored) at the time of the call, in
\* the directory's order: no post of a file that is gone, no file missing,
\* no duplicate.  The directory at the time of the call is blog_files for
\* a rebuild, where the files that could not be read are left aside, and
\* the directory of this state for an answer from blog_list_cache, which
\* is looked at when all its files are readable.
C3_ListIsTheDirectory ==
    (last.kind = "list" /\ last.pc = "done") =>
        /\ last.posts # None
        /\ ~last.cached =>
              Paths(last.posts[1]) = SlugsOf(Rendered(last.files, last.subs))
        /\ (last.cached /\ \A f \in ListNames : Exists(f) => Readable(fs[f].content)) =>
              Paths(last.posts[1]) = SlugsOf(BlogFiles)

\* the file of the post request ended by the last step was missing when the
\* request came in: either blog_page_cache answered in that step, or line 60
\* found no file (a call that saw the file has its mtime, which is not 0)
MissingAtRequest ==
    /\ last.kind = "blog"
    /\ \/ last.cached /\ ~Exists(FileOf(last.slug))
       \/ ~last.cached /\ last.call.pc = "done" /\ last.call.mt = 0

\* C4 as stated: a post request whose slug has no file at request time gets
\* the fixed fallback and never an error, whatever came before
C4_MissingFileGetsFallback ==
    MissingAtRequest => last.pc = "done" /\ last.page = Some(FallbackPage)

\* C4 as amended: a post request whose slug has no file at request time and
\* that blog_page_cache does not answer (no entry, or the entry's TTL is over)
\* gets the fixed fallback and never an error, whatever came before, also
\* when blog_content_cache holds the post of the file
C4_UncachedMissingFileGetsFallback ==
    (MissingAtRequest /\ ~last.cached) =>
        /\ last.pc = "done"
        /\ last.page = Some(FallbackPage)
        /\ blog_page_cache[last.slug].data = FallbackPage

\* C4, witness: the file was read into blog_content_cache, then removed, and
\* the request got the fallback
C4_Witness ==
    /\ MissingAtRequest /\ ~last.cached
    /\ FileOf(last.slug) \in DOMAIN blog_content_cache
    /\ last.page = Some(FallbackPage)

\* no file changed since startup_event began
DirectoryUntouched == mclock = 1

\* the list or about request ended by the last step came in less than
\* CACHE_DURATION after the timestamp of its cache
WithinTTLAtRequest == last.t0 - last.ts < CACHE_DURATION

\* C5 as stated: with no file changed since startup, a list request or an
\* about request (so the first one) is served without reading or parsing a
\* Markdown file
C5_WarmAfterStartup ==
    (last.kind \in {"list", "about"} /\ DirectoryUntouched) =>
        last.pc = "done" /\ ReadNothing

\* C5 as amended: startup ends before a request is handled, and with no file
\* changed since startup a list request or an about request that comes in
\* less than CACHE_DURATION after the timestamp of its cache is served from
\* that cache without reading or parsing a Markdown file
C5_WarmWithinTTL ==
    /\ phase \in {"init", "starting"} =>
           /\ last = Idle
           /\ \A t \in Slots : tasks[t].kind \in {"idle", "startup"}
    /\ (phase = "serving" /\ DirectoryUntouched) =>
           /\ blog_list_cache.content # None
           /\ Exists(AboutFile) => about_page_cache.content # None
    /\ (last.kind \in {"list", "about"} /\ DirectoryUntouched /\ WithinTTLAtRequest) =>
           /\ last.pc = "done" /\ ReadNothing
           /\ last.kind = "list" =>
                  last.cached /\ last.posts = blog_list_cache.content
           /\ last.kind = "about" =>
                  /\ last.page = Some(AboutPage(about_page_cache))
                  /\ Exists(AboutFile) => last.cached

\* C5, witness: the about page of the preload is served
C5_Witness ==
    /\ last.kind = "about" /\ DirectoryUntouched /\ WithinTTLAtRequest
    /\ last.cached
    /\ last.page[1].content = Some(parse_markdown(1))

\* C6: a rebuild in which one file fails or disappears still ends: it
\* returns the posts of the calls that did not fail and blog_list_cache and
\* file_mtimes are updated for every file of the rebuild (the rebuild of
\* startup_event included, which ends the process when it raises)
C6_RebuildCompletes ==
    /\ phase # "crashed"
    /\ (last.kind = "list" /\ ~last.cached) =>
           /\ last.pc = "done"
           /\ last.posts = Some(Gathered(last.files, last.subs))
           /\ \A f \in Range(last.files) : f \in DOMAIN file_mtimes

\* C7: when about.md does not exist at request time the about route
\* renders the fixed message, whether about_page_cache was filled or not
\* (such a request reads nothing and ends in the step it came in)
C7_MissingAboutGetsFallback ==
    (last.kind = "about" /\ last.call.pc = "none" /\ ~Exists(AboutFile)) =>
        last.pc = "done" /\ last.page = Some([content |-> Some(NoContentFound), title |-> ""])

\* the post requests that come in with this step, as they stand after it
BlogsBegun ==
    {tasks'[t] : t \in {u \in Slots : tasks[u].kind = "idle" /\ tasks'[u].kind = "blog"}}
    \cup (IF nev' # nev /\ last'.kind = "blog" THEN {last'} ELSE {})

\* C8: a response served from blog_page_cache was rendered less than
\* CACHE_DURATION before the request and is returned without a call of
\* get_blog_content; a request that finds the entry's TTL over calls
\* get_blog_content, and the request that blog_page_cache did not answer
\* renders the page from what that call returned (for a hit at line 68 an
\* entry that carries the mtime the call saw) and stores it with a new
\* timestamp
C8_PageCacheWindow ==
    [][/\ \A r \in BlogsBegun :
            /\ r.cached =>
                  /\ r.slug \in DOMAIN blog_page_cache
                  /\ now - blog_page_cache[r.slug].timestamp < CACHE_DURATION
                  /\ r.call = NoCall
                  /\ r.page = Some(blog_page_cache[r.slug].data)
                  /\ cachevars' = cachevars
            /\ (/\ r.slug \in DOMAIN blog_page_cache
                /\ now - blog_page_cache[r.slug].timestamp >= CACHE_DURATION) =>
                  ~r.cached /\ r.call.pc # "none"
            /\ r.call.hit =>
                  /\ r.call.mt = fs[FileOf(r.slug)].mtime
                  /\ r.call.res = Some(blog_content_cache[FileOf(r.slug)].data)
       /\ (last'.kind = "blog" /\ ~last'.cached) =>
            /\ last'.page = Some(PageOf(last'.call.res))
            /\ blog_page_cache'[last'.slug] =
                   [data |-> PageOf(last'.call.res), timestamp |-> now']
      ]_vars

\* C8, witness: the page of a post is served from blog_page_cache although
\* the file has another mtime by now
C8_Witness ==
    /\ last.kind = "blog" /\ last.cached
    /\ Exists(FileOf(last.slug))
    /\ EntryStale(FileOf(last.slug))
    /\ last.page # Some(FallbackPage)

\* C9: whenever the entry of a file carries the file's current mtime, its
\* data was rendered from the file's current text, under every interleaving
\* of calls and writes; and the call that stores last decides the entry
C9_CurrentEntryIsCurrentText ==
    [][/\ \A f \in Files :
            (/\ fs'[f].exists
             /\ f \in DOMAIN blog_content_cache'
             /\ blog_content_cache'[f].mtime = fs'[f].mtime) =>
                /\ Readable(fs'[f].content)
                /\ blog_content_cache'[f].data = MakeResult(f, fs'[f].content)
       /\ \A e \in CallsStoring :
            /\ blog_content_cache'[e.f] =
                   [data |-> MakeResult(e.f, e.c.src), mtime |-> e.c.mt, timestamp |-> now]
            /\ \A f \in DOMAIN blog_content_cache \ {e.f} :
                   blog_content_cache'[f] = blog_content_cache[f]
      ]_vars

\* C9, witness: the entry is current while a call that saw an older mtime
\* of the same file is about to store what it read
C9_Witness ==
    \E t \in Slots :
        /\ tasks[t].kind = "blog" /\ tasks[t].pc = "store"
        /\ EntryCurrent(FileOf(tasks[t].slug))
        /\ tasks[t].call.mt # fs[FileOf(tasks[t].slug)].mtime

-----------------------------------------------------------------------------
(* The excerpt's length and cut *)

EndsWithEllipsis(s) ==
    Len(s) >= Len(Ellipsis) /\ SubSeq(s, Len(s) - Len(Ellipsis) + 1, Len(s)) = Ellipsis

\* n characters of h are kept: up to the last space among the first
\* ExcerptLen characters, the space not included, or ExcerptLen characters
\* when there is no space among them
IsCut(h, n) ==
    IF \E i \in 1..ExcerptLen : h[i] = " "
    THEN /\ n < ExcerptLen /\ h[n + 1] = " "
         /\ \A i \in (n + 2)..ExcerptLen : h[i] # " "
    ELSE n = ExcerptLen

\* C11: the excerpt is at most 300 characters plus the ellipsis "..." long;
\* an input of at most 300 characters gets no ellipsis (the excerpt is the
\* input without its headings); a longer input is cut at the last space
\* within its first 300 characters, or at 300 when there is none, and then
\* gets the ellipsis (the excerpt is the cut input without its headings,
\* followed by the ellipsis)
C11_ExcerptLengthAndCut ==
    excerpt # None =>
        /\ Len(excerpt[1]) <= ExcerptLen + Len(Ellipsis)
        /\ Len(html) <= ExcerptLen =>
              /\ excerpt[1] = StripHeadings(html)
              /\ ~EndsWithEllipsis(excerpt[1])
        /\ Len(html) > ExcerptLen =>
              \E n \in 0..ExcerptLen :
                  /\ IsCut(html, n)
                  /\ excerpt[1] = StripHeadings(SubSeq(html, 1, n)) \o Ellipsis

\* C11, witness: an input longer than 300 characters with a space among
\* the first 300 was cut before character 300 and got the ellipsis
C11_Witness ==
    /\ excerpt # None
    /\ Len(html) > ExcerptLen
    /\ \E i \in 1..ExcerptLen : html[i] = " "
    /\ EndsWithEllipsis(excerpt[1])
    /\ Len(excerpt[1]) < ExcerptLen

-----------------------------------------------------------------------------
(* The ignore list *)

\* C12: about.md, the file of the ignore list, never has an entry in
\* file_mtimes nor a post in the cached list or in a list response, also
\* after post requests for the slug "about" put about.md into
\* blog_content_cache
C12_IgnoredNeverListed ==
    /\ AboutFile \notin DOMAIN file_mtimes
    /\ blog_list_cache.content # None =>
           SlugOf(AboutFile) \notin Range(Paths(blog_list_cache.content[1]))
    /\ (last.kind = "list" /\ last.posts # None) =>
           SlugOf(AboutFile) \notin Range(Paths(last.posts[1]))

\* C12, witness: a list request rebuilt the list while about.md was in the
\* directory and in blog_content_cache
C12_Witness ==
    /\ last.kind = "list" /\ last.pc = "done" /\ ~last.cached
    /\ Exists(AboutFile)
    /\ AboutFile \in DOMAIN blog_content_cache
    /\ last.posts # None /\ last.posts[1] # <<>>

-----------------------------------------------------------------------------
(* get_all_blogs when nothing changed *)

\* the list requests that come in with this step, as they stand after it
ListsBegun ==
    {tasks'[t] : t \in {u \in Slots : tasks[u].kind = "idle" /\ tasks'[u].kind = "list"}}
    \cup (IF nev' # nev /\ last'.kind = "list" THEN {last'} ELSE {})

\* blog_list_cache is within its TTL
ListWithinTTL == now - blog_list_cache.timestamp < CACHE_DURATION

\* every file of the directory that is not ignored has the mtime that
\* file_mtimes records for it
AllMtimesRecorded ==
    \A f \in Files \ {AboutFile} :
        fs[f].exists => f \in DOMAIN file_mtimes /\ file_mtimes[f] = fs[f].mtime

\* C13: a call of get_all_blogs without force_refresh, made while
\* blog_list_cache is within its TTL and every non-ignored file present has
\* the mtime recorded in file_mtimes, returns the cached sequence, leaves
\* blog_list_cache, file_mtimes and blog_content_cache unchanged and makes
\* no call of get_blog_content
C13_CachedListIsReturnedUntouched ==
    [][\A r \in ListsBegun :
          (ListWithinTTL /\ AllMtimesRecorded) =>
              /\ r.pc = "done" /\ r.cached
              /\ r.posts = blog_list_cache.content
              /\ r.files = <<>>
              /\ \A f \in ListNames : r.subs[f] = NoCall
              /\ blog_list_cache' = blog_list_cache
              /\ file_mtimes' = file_mtimes
              /\ blog_content_cache' = blog_content_cache
      ]_vars

\* C13, witness: a list request was answered from blog_list_cache with the
\* posts of two files
C13_Witness ==
    /\ last.kind = "list" /\ last.cached
    /\ ListWithinTTL /\ AllMtimesRecorded
    /\ last.posts # None /\ Len(last.posts[1]) = 2

-----------------------------------------------------------------------------
(* The about route while about.md exists *)

\* the about requests that come in with this step, as they stand after it
AboutsBegun ==
    {tasks'[t] : t \in {u \in Slots : tasks[u].kind = "idle" /\ tasks'[u].kind = "about"}}
    \cup (IF nev' # nev /\ last'.kind = "about" THEN {last'} ELSE {})

\* the TTL of about_page_cache is over, or about.md has another mtime than
\* the one cached
AboutOutdated ==
    \/ now - about_page_cache.timestamp >= CACHE_DURATION
    \/ fs[AboutFile].mtime # about_page_cache.mtime

-----------------------------------------------------------------------------
(* The size of the caches *)

\* the keys of both caches are kept by every step
KeysOnlyGrow ==
    [][/\ DOMAIN blog_content_cache \subseteq DOMAIN blog_content_cache'
       /\ DOMAIN blog_page_cache \subseteq DOMAIN blog_page_cache']_vars

\* C15: blog_content_cache and blog_page_cache hold at most one entry per
\* distinct file that has existed in the content directory, whatever slugs
\* were requested (stated while the directory is as startup found it: the
\* files that have existed are then the files that exist, and every key of
\* either cache is the key of one of them)
C15_KeysAreFilesThatExisted ==
    DirectoryUntouched =>
        /\ \A f \in DOMAIN blog_content_cache : Exists(f)
        /\ \A slug \in DOMAIN blog_page_cache : Exists(FileOf(slug))

-----------------------------------------------------------------------------
(* file_mtimes and the cached list *)

\* C16: whenever get_all_blogs returns the cached sequence without a
\* rebuild, every post of the sequence whose file is in the directory and
\* readable was rendered from the current text of that file, also when
\* files were modified while a rebuild was running
C16_CachedPostsAreCurrent ==
    (last.kind = "list" /\ last.cached /\ last.posts # None) =>
        \A i \in 1..Len(last.posts[1]) :
            LET f == FileOf(last.posts[1][i].path)
            IN  (Exists(f) /\ Readable(fs[f].content)) =>
                    last.posts[1][i] = MakeResult(f, fs[f].content)

-----------------------------------------------------------------------------
(* Files added to the directory *)

\* C17: after a file that is not ignored was added to the directory, the
\* next call of get_all_blogs rebuilds the list and, the file being
\* readable, includes its post, also within the TTL: a call that returns
\* the cached sequence without a rebuild returns a post for every readable
\* file of the directory that is not ignored
C17_AddedFileIsListed ==
    (last.kind = "list" /\ last.cached /\ last.posts # None) =>
        \A f \in Files \ {AboutFile} :
            (Exists(f) /\ Readable(fs[f].content)) =>
                SlugOf(f) \in Range(Paths(last.posts[1]))

-----------------------------------------------------------------------------
(* The list once the directory has stopped changing *)

\* the posts of the directory's files, each rendered from its current text
RECURSIVE PostsOf(_)
PostsOf(files) ==
    IF files = <<>> THEN <<>>
    ELSE <<MakeResult(Head(files), fs[Head(files)].content)>> \o PostsOf(Tail(files))

\* the list request ended by the last step came in CACHE_DURATION or more
\* after the last change to the directory (a request that comes in at the
\* clock value of a change comes after the change)
QuietForTTL == last.t0 - changed >= CACHE_DURATION

AllReadable == \A f \in Files \ {AboutFile} : Exists(f) => Readable(fs[f].content)

\* C18: when the directory stopped changing at time t and all its files
\* render, every call of get_all_blogs that starts after t + CACHE_DURATION
\* returns exactly the posts of the files that exist and are not ignored,
\* each rendered from the file's current text, in the directory's order,
\* also when rebuilds overlapped the last change
C18_ListCurrentAfterTTL ==
    (last.kind = "list" /\ QuietForTTL /\ AllReadable) =>
        /\ last.pc = "done"
        /\ last.posts = Some(PostsOf(BlogFiles))

\* C18, witness: the cached list was built by a rebuild that started no
\* later than the last change to the directory, and a list request that
\* came in CACHE_DURATION after that change rebuilt the list
C18_Witness ==
    /\ last.kind = "list" /\ last.pc = "done" /\ ~last.cached
    /\ QuietForTTL /\ AllReadable
    /\ changed # 0 /\ last.ts <= changed
    /\ last.posts # None /\ last.posts[1] # <<>>

====
